---- MODULE Spec2Model ----
(***************************************************************************)
(* CloudFormation stack-operation watchers of the EHR-API repository:      *)
(*   wait_for_stack_operation   deploy-complete-infrastructure.py          *)
(*   wait_for_stack_deletion    teardown-complete-infrastructure.py        *)
(*   delete_stack (its loop)    teardown-stack.py                          *)
(* One behaviour is one watch.  Every step is one describe_stacks call     *)
(* together with the code that runs on its result up to the next call.     *)
(***************************************************************************)
EXTENDS Integers, Sequences, FiniteSets, TLC

\* Caps on the describe_stacks calls of one watch in the model (two of the
\* three loops have paths with no bound of their own): MaxPolls for
\* wait_for_stack_operation, which calls once per iteration, MaxCalls for the
\* delete loops, which call twice per iteration.
MaxPolls == 124
MaxCalls == 242

\* Requests the local listener of create_patient.py is sent in one run.
MaxRequests == 3

\* RDS instances in the stack teardown-stack.py is given.
MaxInstances == 2

\* Invocations of lambda_handler in one container, and how far the clock
\* runs.
MaxInvocations == 4
MaxTime == 6

\* max_wait = 120  # 20 minutes
max_wait == 120
max_wait_deletion == 120

\* for _ in range(60): ... time.sleep(1)
wait_seconds == 60

\* expiry_time = time.time() + expires_in - 60
refresh_margin == 60

(***************************************************************************)
(* The environment: what describe_stacks can answer.                       *)
(***************************************************************************)
StackStatuses ==
    { "CREATE_IN_PROGRESS", "CREATE_COMPLETE", "CREATE_FAILED",
      "ROLLBACK_IN_PROGRESS", "ROLLBACK_COMPLETE", "ROLLBACK_FAILED",
      "UPDATE_IN_PROGRESS", "UPDATE_COMPLETE_CLEANUP_IN_PROGRESS",
      "UPDATE_COMPLETE", "UPDATE_ROLLBACK_COMPLETE", "UPDATE_ROLLBACK_FAILED",
      "DELETE_IN_PROGRESS", "DELETE_FAILED", "DELETE_COMPLETE" }

\* Exceptions describe_stacks can raise: a ClientError whose text contains
\* 'does not exist', a ClientError that does not (rate limiting), and an
\* exception that is not a ClientError (network fault).
NotFound == "ClientError: Stack does not exist"
Throttling == "ClientError: Rate exceeded"
NetworkFault == "EndpointConnectionError"
QueryErrors == { NotFound, Throttling, NetworkFault }

Responses == StackStatuses \cup QueryErrors

\* except ClientError as e
IsClientError(e) == e \in { NotFound, Throttling }

\* 'does not exist' in str(e)
DoesNotExist(e) == e = NotFound

Kinds == { "CREATE", "UPDATE", "DELETE", "DELETE_STACK" }

VARIABLES
    kind,           \* which watch runs: operation "CREATE"/"UPDATE" of
                    \* wait_for_stack_operation, "DELETE" for
                    \* wait_for_stack_deletion, "DELETE_STACK" for the loop
                    \* of teardown-stack.py's delete_stack
    pc,             \* next call of the watch, or "done" / "raised"
    wait_count,     \* the local wait_count
    status,         \* the local status ("none" before the first assignment)
    calls,          \* describe_stacks calls issued so far
    sleeps,         \* time.sleep(10) calls made so far
    last,           \* result of the latest describe_stacks call
    ret,            \* return value: "None" while running or raised
    text,           \* the final line the watch printed
    shown,          \* the status printed inside that final line
    exc,            \* the exception that left the watch, or "none"
    observed,       \* history: number of assignments to status
    inProgressSeen, \* history: in-progress statuses returned to
                    \* wait_for_stack_operation
    clean,          \* history: every call before the latest one returned a
                    \* status that is not terminal for this watch
    uniform,        \* history: all statuses assigned to status were equal
    resource,       \* "any": describe_stacks may answer anything; otherwise
                    \* the one answer a resource at rest gives to every call
    round,          \* 1 for a first watch, 2 for a watch that follows it
    first           \* what the first watch ended with, once round = 2

\* main of teardown-complete-infrastructure.py: a record of its program point
\* (pc), how it ended (exit: "running", "0" or "1" for sys.exit, "end" when
\* main returned, "crash" for an uncaught exception), the AWS calls issued so
\* far in order (log), what the operator typed (confirm, phi_answer,
\* log_answer, snap_answer), what the queries found (int, fnd, db, phi, logb,
\* snaps), what the two deletion watches returned (iwatch, fwatch), main's
\* db_instance_id (db_ret) and whether the summary was printed.
VARIABLE td

\* main of deploy-complete-infrastructure.py: program point (pc), how it ended
\* (exit, as for td), the AWS calls issued so far in order (log), and for each
\* of the two stacks what check_stack_exists found (exists), what the operator
\* answered (answer), what the watch returned (watch) and what the deploy
\* function returned (result); the four foundation outputs read at step 4
\* (outputs), the parameters handed to the integration template (params) and
\* whether "Deployment Complete!" was printed.
VARIABLE dp

\* create_patient.py: the main flow's position (main: "wait", "exchange" once
\* it went on to the token request, "timeout" once it called exit()), the
\* iterations of its wait loop completed (waits), the class attribute
\* Handler.code, the attribute code of the TCPServer object (httpd_code), the
\* listener thread ("serving" or "stopped"), auth_code, the requests handled
\* so far, and the value of waits when the first callback with a code was
\* handled (arrived, -1 before).
VARIABLE oa

\* lambda_function.py: the globals _cached_token (0 for None, else the number
\* of the token) and _cached_expiry, the clock (now), the invocations of the handler
\* and the requests to the token endpoint so far (fetches), the time and the
\* expires_in of the last such request, and the token the last invocation
\* returned.
VARIABLE tc

\* main of teardown-stack.py: program point (pc), how it ended (exit, as for
\* td), the AWS calls issued so far in order (log), the RDS instances of the
\* stack (rds) and how many of them main has gone through (done), how many
\* have lost their deletion protection (unprotected), what the operator
\* answered (confirm, snap_answer), what delete_stack returned (deleted) and
\* whether the summary was printed.
VARIABLE ts

watchVars == << kind, pc, wait_count, status, calls, sleeps, last, ret, text,
                shown, exc, observed, inProgressSeen, clean, uniform >>

twiceVars == << resource, round, first >>

\* Variables of the flows modelled further down; a watch leaves them alone.
outsideWatch == << td, dp, oa, tc, ts >>

vars == << watchVars, twiceVars, outsideWatch >>

\* What the complete teardown leaves alone.
notTd == << watchVars, twiceVars, dp, oa, tc, ts >>

\* What the complete deployment leaves alone.
notDp == << watchVars, twiceVars, td, oa, tc, ts >>

\* What create_patient.py leaves alone.
notOa == << watchVars, twiceVars, td, dp, tc, ts >>

\* What lambda_function.py leaves alone.
notTc == << watchVars, twiceVars, td, dp, oa, ts >>

\* What main of teardown-stack.py leaves alone.
notTs == << watchVars, twiceVars, td, dp, oa, tc >>

NoFirst == [ resource |-> "none", pc |-> "none", ret |-> "None", text |-> "",
             shown |-> "", exc |-> "none", calls |-> 0, sleeps |-> 0,
             wait_count |-> 0, status |-> "none" ]

\* The locals of a watch when it is entered.
WatchStart ==
    /\ pc = IF kind \in { "CREATE", "UPDATE" } THEN "describe_stacks"
                                               ELSE "check_stack_exists"
    /\ wait_count = 0
    /\ status = "none"
    /\ calls = 0
    /\ sleeps = 0
    /\ last = "none"
    /\ ret = "None"
    /\ text = ""
    /\ shown = ""
    /\ exc = "none"
    /\ observed = 0
    /\ inProgressSeen = 0
    /\ clean = TRUE
    /\ uniform = TRUE

\* main of teardown-complete-infrastructure.py before its first prompt.
TdStart ==
    td = [ pc |-> "confirm", exit |-> "running", stage |-> 1, log |-> << >>,
           confirm |-> "none", int |-> "none", db |-> "None", db_ret |-> "None",
           iwatch |-> "none", fnd |-> "none", phi |-> FALSE, logb |-> FALSE,
           phi_answer |-> "none", log_answer |-> "none", fwatch |-> "none",
           snaps |-> "none", snap_answer |-> "none", summary |-> FALSE ]

Stacks == { "foundation", "integration" }

OutputKeys == { "VPCId", "PrivateSubnet1Id", "PrivateSubnet2Id", "KMSKeyId" }

\* main of deploy-complete-infrastructure.py before step 2.
DpStart ==
    dp = [ pc |-> "validate_foundation", exit |-> "running", log |-> << >>,
           exists |-> [ k \in Stacks |-> "none" ],
           answer |-> [ k \in Stacks |-> "none" ],
           watch  |-> [ k \in Stacks |-> "none" ],
           result |-> [ k \in Stacks |-> "none" ],
           outputs |-> [ k \in OutputKeys |-> "unset" ],
           params  |-> [ k \in OutputKeys |-> "unset" ],
           summary |-> FALSE ]

\* create_patient.py after the listener thread was started and the browser
\* opened: Handler.code = None (class body), httpd.code = None (start_server).
OaStart ==
    oa = [ main |-> "wait", waits |-> 0, Handler_code |-> "None",
           httpd_code |-> "None", listener |-> "serving", auth_code |-> "unset",
           requests |-> 0, arrived |-> -1 ]

\* _cached_token: str | None = None
NoToken == 0

\* lambda_function.py loaded: _cached_token = None, _cached_expiry = 0.
TcStart ==
    tc = [ cached_token |-> NoToken, cached_expiry |-> 0, now |-> 0,
           invocations |-> 0, fetches |-> 0, fetch_time |-> 0, expires_in |-> 0,
           returned |-> NoToken ]

\* main of teardown-stack.py before check_stack_exists.
TsStart ==
    ts = [ pc |-> "check", exit |-> "running", log |-> << >>, rds |-> 0,
           done |-> 0, unprotected |-> 0, confirm |-> "none",
           snap_answer |-> "none", deleted |-> "none", summary |-> FALSE ]

\* The other flows, not started.
OutsideIdle == TdStart /\ DpStart /\ OaStart /\ TcStart /\ TsStart

\* A watch that is not running (in the specifications of the other flows).
WatchIdle ==
    /\ kind = "CREATE"
    /\ WatchStart
    /\ resource = "any"
    /\ round = 1
    /\ first = NoFirst

Init ==
    /\ kind \in Kinds
    /\ WatchStart
    /\ resource = "any"
    /\ round = 1
    /\ first = NoFirst
    /\ OutsideIdle

(***************************************************************************)
(* How a step ends.                                                        *)
(***************************************************************************)
Returns(r, t, s) ==
    /\ pc' = "done"
    /\ ret' = r
    /\ text' = t
    /\ shown' = s
    /\ exc' = "none"

Raises(e) ==
    /\ pc' = "raised"
    /\ exc' = e
    /\ UNCHANGED << ret, text, shown >>

Continues(p) ==
    /\ pc' = p
    /\ UNCHANGED << ret, text, shown, exc >>

(***************************************************************************)
(* History variables, kept the same way by every step.                     *)
(***************************************************************************)
TerminalFor(k, s) ==
    IF k \in { "CREATE", "UPDATE" }
    THEN s \in { "CREATE_COMPLETE", "UPDATE_COMPLETE", "CREATE_FAILED",
                 "ROLLBACK_COMPLETE", "ROLLBACK_FAILED",
                 "UPDATE_ROLLBACK_COMPLETE", "UPDATE_ROLLBACK_FAILED" }
    ELSE s \in { "DELETE_COMPLETE", "DELETE_FAILED" }

\* What describe_stacks can answer in the current state.
Answers == IF resource = "any" THEN Responses ELSE { resource }

Called(r) ==
    /\ calls' = calls + 1
    /\ last' = r
    /\ clean' = (clean /\ (last = "none" \/ (last \in StackStatuses /\ ~TerminalFor(kind, last))))

Assigned(r) ==
    /\ status' = r
    /\ observed' = observed + 1
    /\ uniform' = (uniform /\ (status = "none" \/ status = r))

NotAssigned == UNCHANGED << status, observed, uniform >>

(***************************************************************************)
(* wait_for_stack_operation                                                *)
(***************************************************************************)
\* UPDATE_COMPLETE left out of the success list
SuccessStatuses_NoUpdate == { "CREATE_COMPLETE" }

SuccessStatuses == { "CREATE_COMPLETE", "UPDATE_COMPLETE" }

\* ROLLBACK_COMPLETE left out of the failure list
FailureStatuses_NoRollback ==
    { "CREATE_FAILED", "ROLLBACK_FAILED",
      "UPDATE_ROLLBACK_COMPLETE", "UPDATE_ROLLBACK_FAILED" }

FailureStatuses ==
    { "CREATE_FAILED", "ROLLBACK_COMPLETE", "ROLLBACK_FAILED",
      "UPDATE_ROLLBACK_COMPLETE", "UPDATE_ROLLBACK_FAILED" }

\* ROLLBACK_IN_PROGRESS added to the in-progress list
InProgressStatuses_WithRollback ==
    { "CREATE_IN_PROGRESS", "UPDATE_IN_PROGRESS",
      "UPDATE_COMPLETE_CLEANUP_IN_PROGRESS", "ROLLBACK_IN_PROGRESS" }

InProgressStatuses ==
    { "CREATE_IN_PROGRESS", "UPDATE_IN_PROGRESS",
      "UPDATE_COMPLETE_CLEANUP_IN_PROGRESS" }

\* off by one: gives up at the 119th in-progress read
TimedOut_Early(wc) == wc >= max_wait - 1

\* if wait_count >= max_wait
TimedOut(wc) == wc >= max_wait

\* the operation compared with the wrong spelling: absence never handled
NotFoundFails_WrongCase(e, operation) ==
    IsClientError(e) /\ DoesNotExist(e) /\ operation = "create"

\* the operation test dropped: absence fails an update too
NotFoundFails_AnyOperation(e, operation) ==
    IsClientError(e) /\ DoesNotExist(e)

\* if 'does not exist' in str(e) and operation == "CREATE"
NotFoundFails(e, operation) ==
    IsClientError(e) /\ DoesNotExist(e) /\ operation = "CREATE"

wait_for_stack_operation ==
    /\ kind \in { "CREATE", "UPDATE" }
    /\ pc = "describe_stacks"
    /\ calls < MaxPolls
    /\ \E r \in Answers :
        /\ Called(r)
        /\ inProgressSeen' = IF r \in { "CREATE_IN_PROGRESS", "UPDATE_IN_PROGRESS",
                                        "UPDATE_COMPLETE_CLEANUP_IN_PROGRESS" }
                             THEN inProgressSeen + 1 ELSE inProgressSeen
        /\ IF r \in StackStatuses
           THEN /\ Assigned(r)
                /\ IF r \in SuccessStatuses
                   THEN /\ Returns("True", "completed successfully", "")
                        /\ UNCHANGED << wait_count, sleeps >>
                   ELSE IF r \in FailureStatuses
                   THEN /\ Returns("False", "failed with status", r)
                        /\ UNCHANGED << wait_count, sleeps >>
                   ELSE IF r \in InProgressStatuses
                   THEN /\ wait_count' = wait_count + 1
                        /\ IF TimedOut(wait_count')
                           THEN /\ Returns("False", "Timeout", "")
                                /\ UNCHANGED sleeps
                           ELSE /\ Continues("describe_stacks")
                                /\ sleeps' = sleeps + 1
                   ELSE /\ Continues("describe_stacks")
                        /\ sleeps' = sleeps + 1
                        /\ UNCHANGED wait_count
           ELSE /\ NotAssigned
                /\ UNCHANGED << wait_count, sleeps >>
                /\ IF NotFoundFails(r, kind)
                   THEN Returns("False", "stack not found", "")
                   ELSE Raises(r)
    /\ UNCHANGED kind
    /\ UNCHANGED << twiceVars, outsideWatch >>

(***************************************************************************)
(* check_stack_exists, as both teardown scripts define it.                 *)
(***************************************************************************)
\* absence not told apart from the other errors
check_stack_exists_NoAbsence(r) ==
    IF r \in StackStatuses THEN "True" ELSE "raise"

check_stack_exists(r) ==
    IF r \in StackStatuses THEN "True"
    ELSE IF IsClientError(r) /\ DoesNotExist(r) THEN "False"
    ELSE "raise"

(***************************************************************************)
(* wait_for_stack_deletion                                                 *)
(***************************************************************************)
\* off by one: gives up one iteration early
DeletionTimedOut_Early(wc) == wc >= max_wait_deletion - 1

\* off by one: gives up one iteration late
DeletionTimedOut_Late(wc) == wc > max_wait_deletion

\* if wait_count >= max_wait
DeletionTimedOut(wc) == wc >= max_wait_deletion

\* the absence test dropped from the loop's handler: always re-raised
AbsenceBreaks_Never(e) == FALSE

\* except ClientError as e: if 'does not exist' in str(e): break
AbsenceBreaks(e) == IsClientError(e) /\ DoesNotExist(e)

\* the DELETE_COMPLETE test dropped
DeletionStatusClass_NoComplete(s) ==
    IF s = "DELETE_FAILED" THEN "failed"
    ELSE "wait"

\* if status == 'DELETE_FAILED': return False
\* if status == 'DELETE_COMPLETE': break
DeletionStatusClass(s) ==
    IF s = "DELETE_FAILED" THEN "failed"
    ELSE IF s = "DELETE_COMPLETE" THEN "complete"
    ELSE "wait"

wait_for_stack_deletion_check ==
    /\ kind = "DELETE"
    /\ pc = "check_stack_exists"
    /\ calls < MaxCalls
    /\ \E r \in Answers :
        /\ Called(r)
        /\ NotAssigned
        /\ IF check_stack_exists(r) = "True"
           THEN Continues("describe_stacks")
           ELSE IF check_stack_exists(r) = "False"
           THEN Returns("True", "Stack deletion complete!", "")
           ELSE Raises(r)
    /\ UNCHANGED << kind, wait_count, sleeps, inProgressSeen >>
    /\ UNCHANGED << twiceVars, outsideWatch >>

wait_for_stack_deletion_body ==
    /\ kind = "DELETE"
    /\ pc = "describe_stacks"
    /\ calls < MaxCalls
    /\ \E r \in Answers :
        /\ Called(r)
        /\ IF r \in StackStatuses
           THEN /\ Assigned(r)
                /\ IF DeletionStatusClass(r) = "failed"
                   THEN /\ Returns("False", "Stack deletion failed!", "")
                        /\ UNCHANGED << wait_count, sleeps >>
                   ELSE IF DeletionStatusClass(r) = "complete"
                   THEN /\ Returns("True", "Stack deletion complete!", "")
                        /\ UNCHANGED << wait_count, sleeps >>
                   ELSE /\ wait_count' = wait_count + 1
                        /\ IF DeletionTimedOut(wait_count')
                           THEN /\ Returns("False", "Timeout", "")
                                /\ UNCHANGED sleeps
                           ELSE /\ Continues("check_stack_exists")
                                /\ sleeps' = sleeps + 1
           ELSE /\ NotAssigned
                /\ UNCHANGED << wait_count, sleeps >>
                /\ IF AbsenceBreaks(r)
                   THEN Returns("True", "Stack deletion complete!", "")
                   ELSE Raises(r)
    /\ UNCHANGED << kind, inProgressSeen >>
    /\ UNCHANGED << twiceVars, outsideWatch >>

(***************************************************************************)
(* The polling loop of delete_stack in teardown-stack.py.  The loop has no *)
(* max_wait, and the whole function body sits in try/except ClientError.   *)
(***************************************************************************)
\* if status == 'DELETE_FAILED': return False
\* if status == 'DELETE_COMPLETE': break
DeleteStackStatusClass(s) ==
    IF s = "DELETE_FAILED" THEN "failed"
    ELSE IF s = "DELETE_COMPLETE" THEN "complete"
    ELSE "wait"

\* except ClientError as e: if 'does not exist' in str(e): break
DeleteStackAbsenceBreaks(e) == IsClientError(e) /\ DoesNotExist(e)

\* except Exception instead of except ClientError
OuterExcept_CatchAll(e) == Returns("False", "Error deleting stack", "")

\* except ClientError as e: print "Error deleting stack"; return False
OuterExcept(e) ==
    IF IsClientError(e)
    THEN Returns("False", "Error deleting stack", "")
    ELSE Raises(e)

delete_stack_check ==
    /\ kind = "DELETE_STACK"
    /\ pc = "check_stack_exists"
    /\ calls < MaxCalls
    /\ \E r \in Answers :
        /\ Called(r)
        /\ NotAssigned
        /\ IF check_stack_exists(r) = "True"
           THEN Continues("describe_stacks")
           ELSE IF check_stack_exists(r) = "False"
           THEN Returns("True", "Stack deletion complete!", "")
           ELSE OuterExcept(r)
    /\ UNCHANGED << kind, wait_count, sleeps, inProgressSeen >>
    /\ UNCHANGED << twiceVars, outsideWatch >>

delete_stack_body ==
    /\ kind = "DELETE_STACK"
    /\ pc = "describe_stacks"
    /\ calls < MaxCalls
    /\ \E r \in Answers :
        /\ Called(r)
        /\ IF r \in StackStatuses
           THEN /\ Assigned(r)
                /\ IF DeleteStackStatusClass(r) = "failed"
                   THEN /\ Returns("False", "Stack deletion failed!", "")
                        /\ UNCHANGED << wait_count, sleeps >>
                   ELSE IF DeleteStackStatusClass(r) = "complete"
                   THEN /\ Returns("True", "Stack deletion complete!", "")
                        /\ UNCHANGED << wait_count, sleeps >>
                   ELSE /\ wait_count' = wait_count + 1
                        /\ Continues("check_stack_exists")
                        /\ sleeps' = sleeps + 1
           ELSE /\ NotAssigned
                /\ UNCHANGED << wait_count, sleeps >>
                /\ IF DeleteStackAbsenceBreaks(r)
                   THEN Returns("True", "Stack deletion complete!", "")
                   ELSE OuterExcept(r)
    /\ UNCHANGED << kind, inProgressSeen >>
    /\ UNCHANGED << twiceVars, outsideWatch >>

Next ==
    \/ wait_for_stack_operation
    \/ wait_for_stack_deletion_check
    \/ wait_for_stack_deletion_body
    \/ delete_stack_check
    \/ delete_stack_body

Spec == Init /\ [][Next]_vars

TypeOK ==
    /\ kind \in Kinds
    /\ pc \in { "describe_stacks", "check_stack_exists", "done", "raised" }
    /\ wait_count \in 0..MaxCalls
    /\ status \in StackStatuses \cup { "none" }
    /\ calls \in 0..MaxCalls
    /\ sleeps \in 0..MaxCalls
    /\ last \in Responses \cup { "none" }
    /\ ret \in { "None", "True", "False" }
    /\ exc \in QueryErrors \cup { "none" }
    /\ observed \in 0..MaxCalls
    /\ inProgressSeen \in 0..MaxCalls
    /\ clean \in BOOLEAN
    /\ uniform \in BOOLEAN
    /\ resource \in Responses \cup { "any" }
    /\ round \in { 1, 2 }

(***************************************************************************)
(* Two watches in a row on a resource at rest: every describe_stacks call  *)
(* of one watch gets the same answer.  Nothing but the arguments is        *)
(* carried from one call of a watch function to the next.                  *)
(***************************************************************************)
InitTwice ==
    /\ kind \in Kinds
    /\ WatchStart
    /\ resource \in Responses
    /\ round = 1
    /\ first = NoFirst
    /\ OutsideIdle

second_watch ==
    /\ round = 1
    /\ pc \in { "done", "raised" }
    /\ round' = 2
    /\ first' = [ resource |-> resource, pc |-> pc, ret |-> ret, text |-> text,
                  shown |-> shown, exc |-> exc, calls |-> calls,
                  sleeps |-> sleeps, wait_count |-> wait_count,
                  status |-> status ]
    /\ resource' \in Responses
    /\ UNCHANGED kind
    /\ pc' = IF kind \in { "CREATE", "UPDATE" } THEN "describe_stacks"
                                                ELSE "check_stack_exists"
    /\ wait_count' = 0
    /\ status' = "none"
    /\ calls' = 0
    /\ sleeps' = 0
    /\ last' = "none"
    /\ ret' = "None"
    /\ text' = ""
    /\ shown' = ""
    /\ exc' = "none"
    /\ observed' = 0
    /\ inProgressSeen' = 0
    /\ clean' = TRUE
    /\ uniform' = TRUE
    /\ UNCHANGED outsideWatch

NextTwice ==
    \/ wait_for_stack_operation
    \/ wait_for_stack_deletion_check
    \/ wait_for_stack_deletion_body
    \/ delete_stack_check
    \/ delete_stack_body
    \/ second_watch

SpecTwice == InitTwice /\ [][NextTwice]_vars

(***************************************************************************)
(* Properties of the create/update watch.                                  *)
(***************************************************************************)

\* C1: in wait_for_stack_operation, when a poll returns CREATE_COMPLETE or
\* UPDATE_COMPLETE, every earlier poll returned a non-terminal status and
\* fewer than 120 of them were in-progress statuses, the watch returns True
\* on that very poll: the status read is the one of the latest call, one
\* sleep separates each pair of calls, and no call follows.
C1_SuccessOnFirstSuccessPoll ==
    [][ /\ ( /\ kind' \in { "CREATE", "UPDATE" }
             /\ last' \in { "CREATE_COMPLETE", "UPDATE_COMPLETE" }
             /\ clean'
             /\ inProgressSeen' < 120 )
           => ( /\ pc' = "done"
                /\ ret' = "True"
                /\ exc' = "none"
                /\ status' = last'
                /\ observed' = calls'
                /\ sleeps' = calls' - 1 )
        /\ ( /\ kind \in { "CREATE", "UPDATE" }
             /\ last \in { "CREATE_COMPLETE", "UPDATE_COMPLETE" } )
           => calls' = calls ]_vars

C1_Witness ==
    /\ kind = "CREATE"
    /\ last = "CREATE_COMPLETE"
    /\ inProgressSeen = 119
    /\ calls > 120
    /\ ret = "True"

C3_SameStatusTimesOut ==
    ( /\ kind \in { "CREATE", "UPDATE", "DELETE" }
      /\ uniform
      /\ observed = 120
      /\ status \in StackStatuses
      /\ ~TerminalFor(kind, status) )
    => ( /\ pc = "done"
         /\ ret = "False"
         /\ text = "Timeout"
         /\ last = status )

(***************************************************************************)
(* Properties of every watch.                                              *)
(***************************************************************************)

\* C4 as stated: in the create, update and delete watch an outcome, once
\* returned, never changes; no outcome is returned while the latest query
\* result is a non-terminal status and fewer than 120 attempts are counted;
\* and no query is issued after a query returned a terminal status (or, on
\* delete, reported absence).
C4_Original ==
    [][ /\ ( kind' \in { "CREATE", "UPDATE", "DELETE" } /\ ret' # "None" )
           => ~( /\ last' \in StackStatuses
                 /\ ~TerminalFor(kind', last')
                 /\ wait_count' < 120 )
        /\ ( kind \in { "CREATE", "UPDATE", "DELETE" } /\ ret # "None" )
           => ret' = ret
        /\ ( /\ kind \in { "CREATE", "UPDATE", "DELETE" }
             /\ \/ ( last \in StackStatuses /\ TerminalFor(kind, last) )
                \/ ( kind = "DELETE" /\ last = NotFound ) )
           => calls' = calls ]_vars

\* C4 amended: as C4, but a query is excluded only after the watch's loop
\* has read a terminal status into status or after a query reported
\* absence.  (check_stack_exists discards the status its query returned.)
C4_Amended ==
    [][ /\ ( kind' \in { "CREATE", "UPDATE", "DELETE" } /\ ret' # "None" )
           => ~( /\ last' \in StackStatuses
                 /\ ~TerminalFor(kind', last')
                 /\ wait_count' < 120 )
        /\ ( kind \in { "CREATE", "UPDATE", "DELETE" } /\ ret # "None" )
           => ret' = ret
        /\ ( /\ kind \in { "CREATE", "UPDATE", "DELETE" }
             /\ \/ ( status \in StackStatuses /\ TerminalFor(kind, status) )
                \/ last = NotFound )
           => calls' = calls ]_vars

C4_Witness ==
    /\ kind = "DELETE"
    /\ ~clean
    /\ status = "DELETE_FAILED"
    /\ pc = "done"
    /\ ret = "False"

(***************************************************************************)
(* Properties of the delete watches.                                       *)
(***************************************************************************)

\* C5: in wait_for_stack_deletion, when the Nth describe_stacks call raises
\* the 'does not exist' error and the N-1 calls before it returned
\* non-terminal statuses, the watch returns True at call N, and no call
\* follows a 'does not exist' error.
C5_AbsenceIsSuccess ==
    [][ /\ ( kind' = "DELETE" /\ last' = NotFound /\ clean' )
           => ( /\ pc' = "done"
                /\ ret' = "True"
                /\ exc' = "none"
                /\ wait_count' < 120 )
        /\ ( kind = "DELETE" /\ last = NotFound )
           => calls' = calls ]_vars

C5_Witness ==
    /\ kind = "DELETE"
    /\ last = NotFound
    /\ clean
    /\ calls = 240
    /\ ret = "True"

\* C6: in both delete loops the watch has returned True exactly when a query
\* reported absence or the loop read DELETE_COMPLETE; it has printed the
\* failure line (and returned False) exactly when the loop read
\* DELETE_FAILED; after the loop read any other status the watch is back at
\* check_stack_exists with no outcome, except that wait_for_stack_deletion
\* gives up at the read that brings wait_count to 120.  (The loop of
\* teardown-stack.py has no such budget.)
C6_DeleteClassification ==
    kind \in { "DELETE", "DELETE_STACK" } =>
        /\ ret = "True" <=> ( last = NotFound \/ status = "DELETE_COMPLETE" )
        /\ text = "Stack deletion failed!" <=> status = "DELETE_FAILED"
        /\ status = "DELETE_FAILED" => ( pc = "done" /\ ret = "False" )
        /\ ret = "True" => pc = "done"
        /\ ( /\ last \in StackStatuses \ { "DELETE_COMPLETE", "DELETE_FAILED" }
             /\ status = last
             /\ pc # "describe_stacks" )
           => \/ ( /\ pc = "check_stack_exists"
                   /\ ret = "None"
                   /\ kind = "DELETE" => wait_count < 120 )
              \/ ( /\ kind = "DELETE"
                   /\ pc = "done"
                   /\ ret = "False"
                   /\ text = "Timeout"
                   /\ wait_count = 120 )

C6_Witness ==
    /\ kind = "DELETE"
    /\ status = "CREATE_COMPLETE"
    /\ last = "CREATE_COMPLETE"
    /\ pc = "check_stack_exists"
    /\ wait_count = 119

(***************************************************************************)
(* Query errors.                                                           *)
(***************************************************************************)

\* C7: in wait_for_stack_operation with operation CREATE, a 'does not exist'
\* error on any call makes the watch return False on that call, with no
\* sleep after the call (so one call and no sleep when it is the first) and
\* no call after it.
C7_CreateAbsenceFails ==
    [][ /\ ( kind' = "CREATE" /\ last' = NotFound )
           => ( /\ pc' = "done"
                /\ ret' = "False"
                /\ text' = "stack not found"
                /\ exc' = "none"
                /\ sleeps' = calls' - 1 )
        /\ ( kind = "CREATE" /\ last = NotFound )
           => ( calls' = calls /\ sleeps' = sleeps ) ]_vars

C7_Witness ==
    /\ kind = "CREATE"
    /\ last = NotFound
    /\ calls = 1
    /\ sleeps = 0
    /\ ret = "False"

\* C8: in wait_for_stack_operation with operation UPDATE, a 'does not exist'
\* error leaves the watch as an exception: no value is returned, nothing is
\* printed as an outcome, and no call follows.
C8_UpdateAbsenceRaises ==
    [][ /\ ( kind' = "UPDATE" /\ last' = NotFound )
           => ( /\ pc' = "raised"
                /\ exc' = NotFound
                /\ ret' = "None"
                /\ text' = "" )
        /\ ( kind = "UPDATE" /\ last = NotFound )
           => calls' = calls ]_vars

C8_Witness ==
    /\ kind = "UPDATE"
    /\ pc = "raised"
    /\ exc = NotFound
    /\ calls > 1

\* C9 as stated: in all three watchers a query error other than 'does not
\* exist' leaves the watcher as a propagated exception, with no value
\* returned, and no call follows it.
C9_Original ==
    [][ /\ last' \in { Throttling, NetworkFault }
           => ( pc' = "raised" /\ exc' = last' /\ ret' = "None" )
        /\ last \in { Throttling, NetworkFault }
           => calls' = calls ]_vars

\* C9 amended: no call follows a query error other than 'does not exist' in
\* any watcher; wait_for_stack_operation and wait_for_stack_deletion let it
\* propagate, and so does delete_stack of teardown-stack.py unless it is a
\* ClientError, which delete_stack catches and turns into the return value
\* False with the line "Error deleting stack".
C9_Amended ==
    [][ /\ ( last' \in { Throttling, NetworkFault }
             /\ ~( kind' = "DELETE_STACK" /\ last' = Throttling ) )
           => ( pc' = "raised" /\ exc' = last' /\ ret' = "None" )
        /\ ( kind' = "DELETE_STACK" /\ last' = Throttling )
           => ( /\ pc' = "done"
                /\ ret' = "False"
                /\ text' = "Error deleting stack"
                /\ exc' = "none" )
        /\ last \in { Throttling, NetworkFault }
           => calls' = calls ]_vars

C9_Witness ==
    /\ kind = "DELETE_STACK"
    /\ last = Throttling
    /\ pc = "done"
    /\ ret = "False"
    /\ calls = 2

\* C10: wait_for_stack_operation makes at most 120 describe_stacks calls,
\* whatever statuses the calls return.
C10_AtMost120Polls ==
    kind \in { "CREATE", "UPDATE" } => calls <= 120

(***************************************************************************)
(* The attempt budget.                                                     *)
(***************************************************************************)

\* C11: both delete loops (wait_for_stack_deletion and the loop of
\* teardown-stack.py's delete_stack) have returned the unsuccessful outcome
\* once 120 non-terminal iterations are counted.
C11_DeleteGivesUpAt120 ==
    ( kind \in { "DELETE", "DELETE_STACK" } /\ wait_count >= 120 )
    => ( pc = "done" /\ ret = "False" )

\* C12: in wait_for_stack_operation, after 119 polls that all returned an
\* in-progress status the watch is still polling, having slept 119 times;
\* and when poll 120 then returns a success status the watch returns True
\* (not the timeout) with 120 polls and 119 sleeps made.
C12_SuccessAtLastAttempt ==
    kind \in { "CREATE", "UPDATE" } =>
        /\ ( calls = 119 /\ inProgressSeen = 119 )
           => ( pc = "describe_stacks" /\ ret = "None" /\ sleeps = 119 )
        /\ ( /\ calls = 120
             /\ inProgressSeen = 119
             /\ last \in { "CREATE_COMPLETE", "UPDATE_COMPLETE" } )
           => ( /\ pc = "done"
                /\ ret = "True"
                /\ text = "completed successfully"
                /\ sleeps = 119 )

C12_Witness ==
    /\ kind = "CREATE"
    /\ calls = 120
    /\ inProgressSeen = 119
    /\ last = "CREATE_COMPLETE"
    /\ ret = "True"
    /\ sleeps = 119

\* C17: a poll of wait_for_stack_operation increments wait_count exactly
\* when it returns CREATE_IN_PROGRESS, UPDATE_IN_PROGRESS or
\* UPDATE_COMPLETE_CLEANUP_IN_PROGRESS, and gives up exactly when that brings
\* the counter to 120; a poll that returns any other non-terminal status
\* sleeps and polls again with the counter unchanged.  In
\* wait_for_stack_deletion every read of a non-terminal status in the loop
\* body increments wait_count, and the watch gives up exactly when that
\* brings the counter to 120.
C17_AttemptCounting ==
    [][ /\ ( /\ kind \in { "CREATE", "UPDATE" }
             /\ pc = "describe_stacks"
             /\ calls' = calls + 1 )
           => ( /\ wait_count' = IF last' \in { "CREATE_IN_PROGRESS",
                                                "UPDATE_IN_PROGRESS",
                                                "UPDATE_COMPLETE_CLEANUP_IN_PROGRESS" }
                                 THEN wait_count + 1 ELSE wait_count
                /\ text' = "Timeout" <=> ( wait_count' = 120 /\ wait_count = 119 )
                /\ ( /\ last' \in StackStatuses
                     /\ ~TerminalFor(kind, last')
                     /\ wait_count' = wait_count )
                   => ( /\ sleeps' = sleeps + 1
                        /\ pc' = "describe_stacks"
                        /\ ret' = "None" ) )
        /\ ( /\ kind = "DELETE"
             /\ pc = "describe_stacks"
             /\ calls' = calls + 1 )
           => ( /\ wait_count' = IF last' \in StackStatuses /\ ~TerminalFor(kind, last')
                                 THEN wait_count + 1 ELSE wait_count
                /\ text' = "Timeout" <=> ( wait_count' = 120 /\ wait_count = 119 ) )
      ]_vars

C17_Witness ==
    /\ kind = "UPDATE"
    /\ last = "ROLLBACK_IN_PROGRESS"
    /\ wait_count = 5
    /\ calls = 10
    /\ sleeps = 10
    /\ pc = "describe_stacks"

(***************************************************************************)
(* Two watches in a row.                                                   *)
(***************************************************************************)

\* C13 as stated: when the resource is at rest in a terminal status (or, for
\* the delete watch, absent), two watches in a row end with the same outcome
\* and each has made exactly one describe_stacks call.
C13_Original ==
    ( /\ round = 2
      /\ pc \in { "done", "raised" }
      /\ kind \in { "CREATE", "UPDATE", "DELETE" }
      /\ first.resource = resource
      /\ \/ ( resource \in StackStatuses /\ TerminalFor(kind, resource) )
         \/ ( kind = "DELETE" /\ resource = NotFound ) )
    => ( /\ pc = "done"
         /\ first.pc = "done"
         /\ ret = first.ret
         /\ text = first.text
         /\ shown = first.shown
         /\ calls = 1
         /\ first.calls = 1 )

\* C13 amended: as C13, but each delete watch makes two describe_stacks
\* calls (check_stack_exists, then the read of the loop body) when the stack
\* is present with DELETE_COMPLETE or DELETE_FAILED; one call in every other
\* case.
C13_Amended ==
    ( /\ round = 2
      /\ pc \in { "done", "raised" }
      /\ kind \in { "CREATE", "UPDATE", "DELETE" }
      /\ first.resource = resource
      /\ \/ ( resource \in StackStatuses /\ TerminalFor(kind, resource) )
         \/ ( kind = "DELETE" /\ resource = NotFound ) )
    => ( /\ pc = "done"
         /\ first.pc = "done"
         /\ ret = first.ret
         /\ text = first.text
         /\ shown = first.shown
         /\ sleeps = 0
         /\ first.sleeps = 0
         /\ calls = IF kind = "DELETE" /\ resource \in { "DELETE_COMPLETE", "DELETE_FAILED" }
                    THEN 2 ELSE 1
         /\ first.calls = calls )

C13_Witness ==
    /\ round = 2
    /\ kind = "DELETE"
    /\ resource = "DELETE_COMPLETE"
    /\ first.resource = "DELETE_COMPLETE"
    /\ pc = "done"
    /\ ret = "True"
    /\ first.ret = "True"
    /\ calls = 2

\* C14 as stated: a watch that gave up on its budget and a watch that read a
\* failure status both return an unsuccessful value, and the two values
\* returned to the caller differ.
C14_Original ==
    ( /\ round = 2
      /\ kind \in { "CREATE", "UPDATE", "DELETE" }
      /\ first.pc = "done"
      /\ first.text = "Timeout"
      /\ pc = "done"
      /\ text \in { "failed with status", "Stack deletion failed!" } )
    => ( /\ first.ret # "True"
         /\ ret # "True"
         /\ first.ret # ret )

\* C14 amended: both watches return the same value False; what tells them
\* apart is the line the watch prints.  The timeout line is printed exactly
\* when the read that brought wait_count to 120 was non-terminal, the
\* failure line exactly when a failure status was read (and in
\* wait_for_stack_operation it shows that status).
C14_Amended ==
    /\ ( kind \in { "CREATE", "UPDATE", "DELETE" } /\ pc = "done" )
       => ( /\ text = "Timeout"
               <=> ( /\ wait_count = 120
                     /\ last = status
                     /\ status \in StackStatuses
                     /\ ~TerminalFor(kind, status) )
            /\ text \in { "failed with status", "Stack deletion failed!" }
               <=> status \in { "CREATE_FAILED", "ROLLBACK_COMPLETE", "ROLLBACK_FAILED",
                                "UPDATE_ROLLBACK_COMPLETE", "UPDATE_ROLLBACK_FAILED",
                                "DELETE_FAILED" } \cap { t \in StackStatuses : TerminalFor(kind, t) }
            /\ text = "failed with status" => shown = status
            /\ text \in { "Timeout", "failed with status", "Stack deletion failed!" }
               => ret = "False" )
    /\ ( /\ round = 2
         /\ kind \in { "CREATE", "UPDATE", "DELETE" }
         /\ first.pc = "done"
         /\ first.text = "Timeout"
         /\ pc = "done"
         /\ text \in { "failed with status", "Stack deletion failed!" } )
       => ( /\ first.ret = "False"
            /\ ret = "False"
            /\ first.wait_count = 120
            /\ first.text # text )

C14_Witness ==
    /\ round = 2
    /\ kind = "CREATE"
    /\ first.text = "Timeout"
    /\ first.ret = "False"
    /\ text = "failed with status"
    /\ shown = "CREATE_FAILED"
    /\ ret = "False"

(***************************************************************************)
(* teardown-complete-infrastructure.py: main and the functions it calls.   *)
(* One step is one prompt or one AWS call together with the statements     *)
(* that follow it up to the next one.  A deletion watch is one step here:  *)
(* what it returns is what Spec shows a watch can end with.                *)
(***************************************************************************)
\* What an operator may type at a prompt.
ConfirmAnswers == { "DELETE", "delete", "yes", "" }

PromptAnswers == { "yes", "YES", "no", "" }

\* str.lower() on the answers above
Lower(a) ==
    CASE a = "YES" -> "yes"
      [] a = "DELETE" -> "delete"
      [] OTHER -> a

\* What a mutating or listing AWS call can end with.
CallOutcomes == { "ok", "ClientError" }

\* What a deletion watch can end with: return True, return False, or an
\* exception that nobody catches.
WatchOutcomes == { "True", "False", "raise" }

\* any spelling of the word is taken as consent
Confirmed_AnyCase(confirm) == Lower(confirm) = "delete"

\* if confirm != 'DELETE': ... sys.exit(0)
Confirmed(confirm) == confirm = "DELETE"

\* empty.lower() == 'yes' / delete.lower() == 'yes'
SaidYes(a) == Lower(a) = "yes"

\* foundation first
MainOrder_FoundationFirst == << "foundation", "integration" >>

\* main: delete_integration_stack(...), then delete_foundation_stack(...)
MainOrder == << "integration", "foundation" >>

\* The first step of the i-th call of main, or of what follows the calls.
StageEntry(i) ==
    IF i > Len(MainOrder) THEN "cleanup"
    ELSE IF MainOrder[i] = "integration" THEN "int_check"
    ELSE "fnd_check"

TdAt(p) == td.exit = "running" /\ td.pc = p

TdCall(t, call) == [ t EXCEPT !.log = Append(t.log, call) ]

\* The function called from main returns and main goes on.
TdReturn(t) == [ t EXCEPT !.stage = t.stage + 1, !.pc = StageEntry(t.stage + 1) ]

TdExit(t, code) == [ t EXCEPT !.pc = "exit", !.exit = code ]

\* confirm = input(...); if confirm != 'DELETE': sys.exit(0)
teardown_complete_confirm ==
    /\ TdAt("confirm")
    /\ \E a \in ConfirmAnswers :
          td' = IF Confirmed(a)
                THEN [ td EXCEPT !.confirm = a, !.pc = StageEntry(1) ]
                ELSE TdExit([ td EXCEPT !.confirm = a ], "0")
    /\ UNCHANGED notTd

\* delete_integration_stack: if not check_stack_exists(...): return None
delete_integration_stack_check ==
    /\ TdAt("int_check")
    /\ \E r \in Responses :
          LET x == check_stack_exists(r)
              t == TdCall([ td EXCEPT !.int = x ], "describe_stacks:integration")
          IN  td' = CASE x = "True"  -> [ t EXCEPT !.pc = "int_resources" ]
                      [] x = "False" -> TdReturn([ t EXCEPT !.db_ret = "None" ])
                      [] OTHER       -> TdExit(t, "crash")
    /\ UNCHANGED notTd

\* db_instances = get_stack_resources(...); db_instance_id = db_instances[0]
\* (a ClientError of describe_stack_resources gives the empty list)
delete_integration_stack_resources ==
    /\ TdAt("int_resources")
    /\ \E found \in { "db-1", "None" } :
          td' = [ TdCall(td, "describe_stack_resources:integration")
                    EXCEPT !.db = found,
                           !.pc = IF found # "None" THEN "int_disable" ELSE "int_delete" ]
    /\ UNCHANGED notTd

\* disable_rds_deletion_protection: modify_db_instance, then the waiter; a
\* ClientError is reported and swallowed, a WaiterError is not caught.
teardown_complete_disable_rds_deletion_protection ==
    /\ TdAt("int_disable")
    /\ \E o \in CallOutcomes \cup { "WaiterError" } :
          LET t == TdCall(td, "modify_db_instance")
          IN  td' = IF o = "WaiterError" THEN TdExit(t, "crash")
                    ELSE [ t EXCEPT !.pc = "int_delete" ]
    /\ UNCHANGED notTd

\* cf_client.delete_stack(StackName=INTEGRATION_STACK_NAME)
delete_integration_stack_delete ==
    /\ TdAt("int_delete")
    /\ \E o \in CallOutcomes :
          LET t == TdCall(td, "delete_stack:integration")
          IN  td' = IF o = "ok" THEN [ t EXCEPT !.pc = "int_wait" ]
                    ELSE TdExit(t, "crash")
    /\ UNCHANGED notTd

\* the instance id is returned whatever the watch said
IntegrationResult_AlwaysId(w, db) == db

\* if not wait_for_stack_deletion(...): return None
\* return db_instance_id
IntegrationResult(w, db) == IF w = "True" THEN db ELSE "None"

delete_integration_stack_wait ==
    /\ TdAt("int_wait")
    /\ \E w \in WatchOutcomes :
          LET t == [ td EXCEPT !.iwatch = w ]
          IN  td' = IF w = "raise" THEN TdExit(t, "crash")
                    ELSE TdReturn([ t EXCEPT !.db_ret = IntegrationResult(w, td.db) ])
    /\ UNCHANGED notTd

\* delete_foundation_stack: if not check_stack_exists(...): return True
delete_foundation_stack_check ==
    /\ TdAt("fnd_check")
    /\ \E r \in Responses :
          LET x == check_stack_exists(r)
              t == TdCall([ td EXCEPT !.fnd = x ], "describe_stacks:foundation")
          IN  td' = CASE x = "True"  -> [ t EXCEPT !.pc = "fnd_buckets" ]
                      [] x = "False" -> TdReturn(t)
                      [] OTHER       -> TdExit(t, "crash")
    /\ UNCHANGED notTd

\* buckets = get_stack_resources(...); for bucket in buckets: ...
delete_foundation_stack_buckets ==
    /\ TdAt("fnd_buckets")
    /\ \E phi \in BOOLEAN, logb \in BOOLEAN :
          td' = [ TdCall(td, "describe_stack_resources:foundation")
                    EXCEPT !.phi = phi, !.logb = logb,
                           !.pc = IF phi THEN "phi_prompt"
                                  ELSE IF logb THEN "log_prompt"
                                  ELSE "fnd_delete" ]
    /\ UNCHANGED notTd

\* if phi_bucket: empty = input("Empty PHI bucket? (yes/no): ")
\*     if empty.lower() == 'yes': empty_s3_bucket(...)
\* (empty_s3_bucket swallows its ClientError)
delete_foundation_stack_phi ==
    /\ TdAt("phi_prompt")
    /\ \E a \in PromptAnswers :
          LET t == [ td EXCEPT !.phi_answer = a,
                               !.pc = IF td.logb THEN "log_prompt" ELSE "fnd_delete" ]
          IN  td' = IF SaidYes(a) THEN TdCall(t, "delete_objects:phi") ELSE t
    /\ UNCHANGED notTd

\* if log_bucket: empty = input("Empty log bucket? (yes/no): ") ...
delete_foundation_stack_log ==
    /\ TdAt("log_prompt")
    /\ \E a \in PromptAnswers :
          LET t == [ td EXCEPT !.log_answer = a, !.pc = "fnd_delete" ]
          IN  td' = IF SaidYes(a) THEN TdCall(t, "delete_objects:log") ELSE t
    /\ UNCHANGED notTd

\* cf_client.delete_stack(StackName=FOUNDATION_STACK_NAME)
delete_foundation_stack_delete ==
    /\ TdAt("fnd_delete")
    /\ \E o \in CallOutcomes :
          LET t == TdCall(td, "delete_stack:foundation")
          IN  td' = IF o = "ok" THEN [ t EXCEPT !.pc = "fnd_wait" ]
                    ELSE TdExit(t, "crash")
    /\ UNCHANGED notTd

\* return wait_for_stack_deletion(...), and in main:
\* if not delete_foundation_stack(...): sys.exit(1)
delete_foundation_stack_wait ==
    /\ TdAt("fnd_wait")
    /\ \E w \in WatchOutcomes :
          LET t == [ td EXCEPT !.fwatch = w ]
          IN  td' = CASE w = "True"  -> TdReturn(t)
                      [] w = "False" -> TdExit(t, "1")
                      [] OTHER       -> TdExit(t, "crash")
    /\ UNCHANGED notTd

\* cleanup_orphaned_resources: if not db_instance_id: return
\* response = rds_client.describe_db_snapshots(); snapshots = [...]
cleanup_orphaned_resources_list ==
    /\ TdAt("cleanup")
    /\ \/ /\ td.db_ret = "None"
          /\ td' = [ td EXCEPT !.pc = "summary" ]
       \/ /\ td.db_ret # "None"
          /\ \E o \in { "found", "empty", "ClientError" } :
                td' = [ TdCall(td, "describe_db_snapshots")
                          EXCEPT !.snaps = o,
                                 !.pc = IF o = "found" THEN "snap_prompt" ELSE "summary" ]
    /\ UNCHANGED notTd

\* delete = input("Delete these snapshots? (yes/no): ")
\* if delete.lower() == 'yes': rds_client.delete_db_snapshot(...) for each
cleanup_orphaned_resources_delete ==
    /\ TdAt("snap_prompt")
    /\ \E a \in PromptAnswers :
          LET t == [ td EXCEPT !.snap_answer = a, !.pc = "summary" ]
          IN  td' = IF SaidYes(a) THEN TdCall(t, "delete_db_snapshot") ELSE t
    /\ UNCHANGED notTd

\* print_color("Teardown Complete!", Colors.GREEN) and the summary; main returns
teardown_complete_summary ==
    /\ TdAt("summary")
    /\ td' = TdExit([ td EXCEPT !.summary = TRUE ], "end")
    /\ UNCHANGED notTd

NextTeardown ==
    \/ teardown_complete_confirm
    \/ delete_integration_stack_check
    \/ delete_integration_stack_resources
    \/ teardown_complete_disable_rds_deletion_protection
    \/ delete_integration_stack_delete
    \/ delete_integration_stack_wait
    \/ delete_foundation_stack_check
    \/ delete_foundation_stack_buckets
    \/ delete_foundation_stack_phi
    \/ delete_foundation_stack_log
    \/ delete_foundation_stack_delete
    \/ delete_foundation_stack_wait
    \/ cleanup_orphaned_resources_list
    \/ cleanup_orphaned_resources_delete
    \/ teardown_complete_summary

InitTeardown == WatchIdle /\ OutsideIdle

SpecTeardown == InitTeardown /\ [][NextTeardown]_vars

\* The positions of a call in the log.
TdIssued(call) == { i \in 1..Len(td.log) : td.log[i] = call }

\* C15: the foundation stack's delete_stack is issued only after the
\* integration stack's delete_stack was issued and its deletion watch has
\* returned, or after the integration stack was found absent; it never comes
\* before the integration stack's delete_stack.
C15_TeardownOrder ==
    \A j \in TdIssued("delete_stack:foundation") :
       /\ \/ td.int = "False"
          \/ /\ \E i \in TdIssued("delete_stack:integration") : i < j
             /\ td.iwatch \in { "True", "False" }
       /\ \A i \in TdIssued("delete_stack:integration") : i < j

C15_Witness ==
    /\ TdIssued("delete_stack:integration") # {}
    /\ TdIssued("delete_stack:foundation") # {}
    /\ td.iwatch = "True"
    /\ td.fwatch = "True"

(***************************************************************************)
(* deploy-complete-infrastructure.py: main and the functions it calls.     *)
(* One step is one prompt or one AWS call together with the statements     *)
(* that follow it up to the next one; a watch is one step, as above.       *)
(***************************************************************************)
\* the result of a deploy function is not looked at
DeploymentSucceeded_Always(result) == TRUE

\* if not deploy_foundation_stack(...): sys.exit(1)
\* if not deploy_integration_stack(...): sys.exit(1)
DeploymentSucceeded(result) == result = "True"

DpAt(p) == dp.exit = "running" /\ dp.pc = p

DpCall(d, call) == [ d EXCEPT !.log = Append(d.log, call) ]

DpExit(d, code) == [ d EXCEPT !.pc = "exit", !.exit = code ]

\* What main does after the deploy function of a stack has returned.
DpAfter(k) == IF k = "foundation" THEN "outputs" ELSE "summary"

\* deploy_<k>_stack returns result; main tests it.
DpReturn(d, k, result) ==
    LET r == [ d EXCEPT !.result[k] = result ]
    IN  IF DeploymentSucceeded(result) THEN [ r EXCEPT !.pc = DpAfter(k) ]
        ELSE DpExit(r, "1")

\* validate_template, for both templates in turn
validate_template(k) ==
    /\ DpAt("validate_" \o k)
    /\ \E o \in CallOutcomes :
          LET d == DpCall(dp, "validate_template:" \o k)
          IN  dp' = IF o # "ok" THEN DpExit(d, "1")
                    ELSE [ d EXCEPT !.pc = IF k = "foundation" THEN "validate_integration"
                                           ELSE "check_foundation" ]
    /\ UNCHANGED notDp

\* if check_stack_exists(cf_client, <stack name>): ... else: ...
deploy_stack_check(k) ==
    /\ DpAt("check_" \o k)
    /\ \E r \in Responses :
          LET x == check_stack_exists(r)
              d == DpCall([ dp EXCEPT !.exists[k] = x ], "describe_stacks:" \o k)
          IN  dp' = CASE x = "True"  -> [ d EXCEPT !.pc = "prompt_" \o k ]
                      [] x = "False" -> [ d EXCEPT !.pc = "create_" \o k ]
                      [] OTHER       -> DpExit(d, "crash")
    /\ UNCHANGED notDp

\* update = input("Do you want to update it? (yes/no): ")
\* if update.lower() == 'yes': ...  /  return True
deploy_stack_prompt(k) ==
    /\ DpAt("prompt_" \o k)
    /\ \E a \in PromptAnswers :
          LET d == [ dp EXCEPT !.answer[k] = a ]
          IN  dp' = IF SaidYes(a) THEN [ d EXCEPT !.pc = "update_" \o k ]
                    ELSE DpReturn(d, k, "True")
    /\ UNCHANGED notDp

\* cf_client.update_stack(...); 'No updates are to be performed' returns
\* True, any other ClientError is raised again
deploy_stack_update(k) ==
    /\ DpAt("update_" \o k)
    /\ \E o \in CallOutcomes \cup { "NoUpdates" } :
          LET d == DpCall(dp, "update_stack:" \o k)
          IN  dp' = CASE o = "ok"        -> [ d EXCEPT !.pc = "wait_" \o k ]
                      [] o = "NoUpdates" -> DpReturn(d, k, "True")
                      [] OTHER           -> DpExit(d, "crash")
    /\ UNCHANGED notDp

\* cf_client.create_stack(...)
deploy_stack_create(k) ==
    /\ DpAt("create_" \o k)
    /\ \E o \in CallOutcomes :
          LET d == DpCall(dp, "create_stack:" \o k)
          IN  dp' = IF o = "ok" THEN [ d EXCEPT !.pc = "wait_" \o k ]
                    ELSE DpExit(d, "crash")
    /\ UNCHANGED notDp

\* return wait_for_stack_operation(cf_client, <stack name>, "UPDATE" / "CREATE")
deploy_stack_wait(k) ==
    /\ DpAt("wait_" \o k)
    /\ \E w \in WatchOutcomes :
          LET d == [ dp EXCEPT !.watch[k] = w ]
          IN  dp' = IF w = "raise" THEN DpExit(d, "crash")
                    ELSE DpReturn(d, k, w)
    /\ UNCHANGED notDp

\* get_stack_output: the value of the key, or None when the key is missing
\* or describe_stacks raises ClientError
OutputValues == { "value", "None" }

\* Step 4: four get_stack_output calls, then deploy_integration_stack is
\* entered with what they returned.
deploy_get_foundation_outputs ==
    /\ DpAt("outputs")
    /\ \E o \in [ OutputKeys -> OutputValues ] :
          dp' = [ dp EXCEPT !.outputs = o,
                            !.params = o,
                            !.log = dp.log \o << "describe_stacks:foundation",
                                                "describe_stacks:foundation",
                                                "describe_stacks:foundation",
                                                "describe_stacks:foundation" >>,
                            !.pc = "check_integration" ]
    /\ UNCHANGED notDp

\* Step 6 and the final summary: two get_stack_output calls (None shown as
\* "N/A"), "Deployment Complete!", main returns.
deploy_summary ==
    /\ DpAt("summary")
    /\ dp' = DpExit([ dp EXCEPT !.summary = TRUE,
                                !.log = dp.log \o << "describe_stacks:integration",
                                                    "describe_stacks:integration" >> ],
                    "end")
    /\ UNCHANGED notDp

NextDeploy ==
    \/ \E k \in Stacks : validate_template(k)
    \/ \E k \in Stacks : deploy_stack_check(k)
    \/ \E k \in Stacks : deploy_stack_prompt(k)
    \/ \E k \in Stacks : deploy_stack_update(k)
    \/ \E k \in Stacks : deploy_stack_create(k)
    \/ \E k \in Stacks : deploy_stack_wait(k)
    \/ deploy_get_foundation_outputs
    \/ deploy_summary

InitDeploy == WatchIdle /\ OutsideIdle

SpecDeploy == InitDeploy /\ [][NextDeploy]_vars

\* The create_stack and update_stack requests of a stack.
Operations(k) == { "create_stack:" \o k, "update_stack:" \o k }

DpIssued(calls_) == { i \in 1..Len(dp.log) : dp.log[i] \in calls_ }

\* C16: a create_stack or update_stack for the integration stack is issued
\* only after deploy_foundation_stack returned True; when the foundation
\* watch returned False (a failure status or the spent budget), main has
\* exited with status 1 and no integration operation was issued.
C16_DeploymentOrder ==
    /\ DpIssued(Operations("integration")) # {} => dp.result["foundation"] = "True"
    /\ dp.watch["foundation"] = "False"
          => /\ dp.exit = "1"
             /\ DpIssued(Operations("integration")) = {}
             /\ Len(dp.log) > 0
             /\ dp.log[Len(dp.log)] \in Operations("foundation")

C16_Witness ==
    /\ DpIssued(Operations("foundation")) # {}
    /\ dp.watch["foundation"] = "True"
    /\ DpIssued(Operations("integration")) # {}

(***************************************************************************)
(* create_patient.py: the listener thread (start_server, Handler.do_GET)   *)
(* and the main flow's wait loop.  One step of the listener is one         *)
(* handle_request with the loop test after it; one step of the main flow   *)
(* is one iteration of its for loop.                                       *)
(***************************************************************************)
\* The authorization codes a redirect may carry.
Codes == { "code-A", "code-B" }

\* The process is alive: exit() has not been called.
OaAlive == oa.main # "timeout"

\* if hasattr(Handler, 'code') and Handler.code
CodeSeen(o) == o.Handler_code # "None"

\* do_GET with 'code' in params: self.server.code = params['code'][0], answer
\* 200; then start_server's test "while httpd.code is None" ends the thread.
do_GET_code ==
    /\ OaAlive
    /\ oa.listener = "serving"
    /\ oa.requests < MaxRequests
    /\ \E c \in Codes :
          oa' = [ oa EXCEPT !.httpd_code = c,
                            !.requests = oa.requests + 1,
                            !.arrived = IF oa.arrived = -1 THEN oa.waits ELSE oa.arrived,
                            !.listener = "stopped" ]
    /\ UNCHANGED notOa

\* do_GET without a code: answer 400; httpd.code is still None and the
\* thread handles the next request.
do_GET_other ==
    /\ OaAlive
    /\ oa.listener = "serving"
    /\ oa.requests < MaxRequests
    /\ oa' = [ oa EXCEPT !.requests = oa.requests + 1 ]
    /\ UNCHANGED notOa

\* for _ in range(60):
\*     if hasattr(Handler, 'code') and Handler.code:
\*         auth_code = Handler.code; break      (and on to the token request)
\*     time.sleep(1)
wait_loop ==
    /\ oa.main = "wait"
    /\ oa.waits < wait_seconds
    /\ oa' = IF CodeSeen(oa)
             THEN [ oa EXCEPT !.auth_code = oa.Handler_code, !.main = "exchange" ]
             ELSE [ oa EXCEPT !.waits = oa.waits + 1 ]
    /\ UNCHANGED notOa

\* else: print("Timeout ..."); exit()
wait_timeout ==
    /\ oa.main = "wait"
    /\ oa.waits = wait_seconds
    /\ oa' = [ oa EXCEPT !.main = "timeout" ]
    /\ UNCHANGED notOa

NextOAuth ==
    \/ do_GET_code
    \/ do_GET_other
    \/ wait_loop
    \/ wait_timeout

InitOAuth == WatchIdle /\ OutsideIdle

SpecOAuth == InitOAuth /\ [][NextOAuth]_vars

\* C18: the main flow goes on to the token request only with the code of a
\* callback the listener received, it exits on timeout only after 60 waits,
\* and it does not exit on timeout when a callback with a code was handled
\* before the last of its 60 checks.
C18_CallbackRendezvous ==
    /\ oa.main = "exchange"
          => ( oa.httpd_code \in Codes /\ oa.auth_code = oa.httpd_code )
    /\ oa.main = "timeout"
          => ( oa.waits = 60 /\ oa.arrived \in { -1, 60 } )

(***************************************************************************)
(* lambda_function.py: the token cache.  One step is one invocation of     *)
(* lambda_handler, or the clock moving on between invocations.             *)
(***************************************************************************)
\* expires_in as the token endpoint may answer it, in seconds.
ExpiresIns == { 59, 61, 63 }

\* Seconds that pass between the handler's test and get_fresh_token's
\* reading of the clock.
Latencies == { 0, 1 }

\* no margin: the token is kept until the endpoint's own expiry
ExpiryTime_NoMargin(fetched_at, expires_in) == fetched_at + expires_in

\* get_fresh_token: expiry_time = time.time() + expires_in - 60
ExpiryTime(fetched_at, expires_in) == fetched_at + expires_in - refresh_margin

\* lambda_handler: if _cached_token is None or time.time() > _cached_expiry
NeedsRefresh(t) == t.cached_token = NoToken \/ t.now > t.cached_expiry

\* lambda_handler: on NeedsRefresh, _cached_token, _cached_expiry =
\* get_fresh_token(); the cached token is returned.
lambda_handler ==
    /\ tc.invocations < MaxInvocations
    /\ \/ /\ NeedsRefresh(tc)
          /\ \E e \in ExpiresIns, d \in Latencies :
                /\ tc.now + d <= MaxTime
                /\ tc' = [ tc EXCEPT !.invocations = tc.invocations + 1,
                                     !.fetches = tc.fetches + 1,
                                     !.now = tc.now + d,
                                     !.fetch_time = tc.now + d,
                                     !.expires_in = e,
                                     !.cached_token = tc.fetches + 1,
                                     !.cached_expiry = ExpiryTime(tc.now + d, e),
                                     !.returned = tc.fetches + 1 ]
       \/ /\ ~NeedsRefresh(tc)
          /\ tc' = [ tc EXCEPT !.invocations = tc.invocations + 1,
                               !.returned = tc.cached_token ]
    /\ UNCHANGED notTc

\* Time passes between two invocations.
clock_tick ==
    /\ tc.now < MaxTime
    /\ tc' = [ tc EXCEPT !.now = tc.now + 1 ]
    /\ UNCHANGED notTc

NextCache ==
    \/ lambda_handler
    \/ clock_tick

InitCache == WatchIdle /\ OutsideIdle

SpecCache == InitCache /\ [][NextCache]_vars

\* C19: an invocation requests a fresh token exactly when no token is cached
\* or the time is greater than the cached expiry; otherwise it returns the
\* cached token and leaves the cache as it was; time never runs backwards;
\* and the expiry of a cached token is its fetch time + expires_in - 60.
C19_TokenCache ==
    [][ /\ tc'.now >= tc.now
        /\ tc'.invocations = tc.invocations + 1
              => /\ tc'.fetches # tc.fetches
                    <=> ( tc.cached_token = NoToken \/ tc.now > tc.cached_expiry )
                 /\ tc'.fetches = tc.fetches
                    => /\ tc'.returned = tc.cached_token
                       /\ tc'.cached_token = tc.cached_token
                       /\ tc'.cached_expiry = tc.cached_expiry
                 /\ tc'.returned = tc'.cached_token
        /\ tc'.cached_token # NoToken
              => tc'.cached_expiry = tc'.fetch_time + tc'.expires_in - 60
      ]_vars

\* A token was fetched, served once more from the cache, and replaced after
\* its expiry.
C19_Witness ==
    /\ tc.invocations = 3
    /\ tc.fetches = 2
    /\ tc.returned = 2
    /\ tc.now > 1
    /\ tc.cached_expiry = tc.fetch_time + tc.expires_in - 60

(***************************************************************************)
(* teardown-stack.py: main.  One step is one prompt or one AWS call with   *)
(* the statements that follow it; delete_stack with its loop is one step,  *)
(* returning what Spec shows it can return.                                *)
(***************************************************************************)
TsAt(p) == ts.exit = "running" /\ ts.pc = p

TsCall(t, call) == [ t EXCEPT !.log = Append(t.log, call) ]

TsExit(t, code) == [ t EXCEPT !.pc = "exit", !.exit = code ]

\* if not check_stack_exists(cf_client, stack_name): ... sys.exit(1)
teardown_stack_check ==
    /\ TsAt("check")
    /\ \E r \in Responses :
          LET x == check_stack_exists(r)
              t == TsCall(ts, "describe_stacks")
          IN  ts' = CASE x = "True"  -> [ t EXCEPT !.pc = "resources" ]
                      [] x = "False" -> TsExit(t, "1")
                      [] OTHER       -> TsExit(t, "crash")
    /\ UNCHANGED notTs

\* rds_instances = get_stack_resources(cf_client, stack_name, 'AWS::RDS::DBInstance')
teardown_stack_resources ==
    /\ TsAt("resources")
    /\ \E n \in 0..MaxInstances :
          ts' = [ TsCall(ts, "describe_stack_resources")
                    EXCEPT !.rds = n,
                           !.pc = IF n > 0 THEN "disable" ELSE "log_groups" ]
    /\ UNCHANGED notTs

\* for db_instance_id in rds_instances:
\*     disable_rds_deletion_protection(rds_client, db_instance_id)
\* modify_db_instance either takes effect or raises ClientError (swallowed);
\* a WaiterError of the waiter after it is not caught.
teardown_stack_disable_rds_deletion_protection ==
    /\ TsAt("disable")
    /\ \E o \in CallOutcomes \cup { "WaiterError" } :
          LET t == [ TsCall(ts, "modify_db_instance")
                       EXCEPT !.done = ts.done + 1,
                              !.unprotected = IF o = "ClientError" THEN ts.unprotected
                                              ELSE ts.unprotected + 1 ]
          IN  ts' = IF o = "WaiterError" THEN TsExit(t, "crash")
                    ELSE [ t EXCEPT !.pc = IF t.done < ts.rds THEN "disable"
                                           ELSE "log_groups" ]
    /\ UNCHANGED notTs

\* log_groups = get_stack_resources(cf_client, stack_name, 'AWS::Logs::LogGroup')
teardown_stack_log_groups ==
    /\ TsAt("log_groups")
    /\ ts' = [ TsCall(ts, "describe_stack_resources") EXCEPT !.pc = "confirm" ]
    /\ UNCHANGED notTs

\* confirm = input("Are you sure you want to continue? (yes/no): ")
\* if confirm.lower() != 'yes': ... sys.exit(0)
teardown_stack_confirm ==
    /\ TsAt("confirm")
    /\ \E a \in PromptAnswers :
          LET t == [ ts EXCEPT !.confirm = a ]
          IN  ts' = IF SaidYes(a) THEN [ t EXCEPT !.pc = "delete" ]
                    ELSE TsExit(t, "0")
    /\ UNCHANGED notTs

\* if not delete_stack(cf_client, stack_name): sys.exit(1)
\* (delete_stack turns every ClientError into False)
teardown_stack_delete ==
    /\ TsAt("delete")
    /\ \E w \in { "True", "False" } :
          LET t == [ TsCall(ts, "delete_stack") EXCEPT !.deleted = w ]
          IN  ts' = IF w = "False" THEN TsExit(t, "1")
                    ELSE [ t EXCEPT !.pc = IF ts.rds > 0 THEN "snapshots" ELSE "summary" ]
    /\ UNCHANGED notTs

\* cleanup_snapshots(rds_client, rds_instances[0], region): list the
\* snapshots, ask, delete them on 'yes'
teardown_stack_cleanup_snapshots ==
    /\ TsAt("snapshots")
    /\ \E o \in { "found", "empty", "ClientError" } :
          LET t == [ TsCall(ts, "describe_db_snapshots") EXCEPT !.pc = "summary" ]
          IN  \/ o # "found" /\ ts' = t
              \/ /\ o = "found"
                 /\ \E a \in PromptAnswers :
                       ts' = IF SaidYes(a)
                             THEN TsCall([ t EXCEPT !.snap_answer = a ], "delete_db_snapshot")
                             ELSE [ t EXCEPT !.snap_answer = a ]
    /\ UNCHANGED notTs

\* print_color("Teardown Complete!", Colors.GREEN) and the summary
teardown_stack_summary ==
    /\ TsAt("summary")
    /\ ts' = TsExit([ ts EXCEPT !.summary = TRUE ], "end")
    /\ UNCHANGED notTs

NextTeardownStack ==
    \/ teardown_stack_check
    \/ teardown_stack_resources
    \/ teardown_stack_disable_rds_deletion_protection
    \/ teardown_stack_log_groups
    \/ teardown_stack_confirm
    \/ teardown_stack_delete
    \/ teardown_stack_cleanup_snapshots
    \/ teardown_stack_summary

InitTeardownStack == WatchIdle /\ OutsideIdle

SpecTeardownStack == InitTeardownStack /\ [][NextTeardownStack]_vars

\* The calls that change an external resource.
MutatingCalls == { "modify_db_instance", "delete_stack", "delete_db_snapshot" }

\* C20: no mutating call (modify_db_instance, delete_stack,
\* delete_db_snapshot) is issued before the operator answered 'yes' to the
\* confirmation prompt, and a run the operator cancelled ends with no
\* instance having lost its deletion protection.
C20_ConfirmationGate ==
    /\ ( \E i \in 1..Len(ts.log) : ts.log[i] \in MutatingCalls )
          => ts.confirm \in { "yes", "YES" }
    /\ ts.exit = "0" => ts.unprotected = 0

(***************************************************************************)
(* Further properties of main of teardown-complete-infrastructure.py and   *)
(* of deploy-complete-infrastructure.py, under SpecTeardown / SpecDeploy.  *)
(***************************************************************************)
\* C21: no AWS call is made unless the operator typed exactly DELETE; a
\* bucket is emptied only after the operator said yes at that bucket's
\* prompt, and before the foundation stack's delete_stack; snapshots are
\* deleted only after the operator said yes at the snapshot prompt.
C21_TeardownGates ==
    /\ td.log # << >> => td.confirm = "DELETE"
    /\ \A i \in TdIssued("delete_objects:phi") :
          /\ td.phi_answer \in { "yes", "YES" }
          /\ \A j \in TdIssued("delete_stack:foundation") : i < j
    /\ \A i \in TdIssued("delete_objects:log") :
          /\ td.log_answer \in { "yes", "YES" }
          /\ \A j \in TdIssued("delete_stack:foundation") : i < j
    /\ TdIssued("delete_db_snapshot") # {} => td.snap_answer \in { "yes", "YES" }

C21_Witness ==
    /\ td.confirm = "DELETE"
    /\ TdIssued("delete_objects:phi") # {}
    /\ TdIssued("delete_objects:log") # {}
    /\ TdIssued("delete_stack:foundation") # {}
    /\ TdIssued("delete_db_snapshot") # {}

\* C22: main prints the "Teardown Complete!" summary only when each of the
\* two stacks was found absent or its deletion watch returned True; when
\* the integration stack's deletion watch returned False, the foundation
\* stack's delete_stack is not issued and the summary is not printed.
C22_SummaryOnlyOnSuccess ==
    /\ td.summary
          => /\ td.int = "False" \/ td.iwatch = "True"
             /\ td.fnd = "False" \/ td.fwatch = "True"
    /\ td.iwatch = "False"
          => /\ TdIssued("delete_stack:foundation") = {}
             /\ ~td.summary

\* cleanup_orphaned_resources has been called and has returned or is at
\* its prompt.
CleanupEntered == td.pc \in { "snap_prompt", "summary" } \/ td.summary

\* C23: cleanup_orphaned_resources lists snapshots exactly when the
\* integration stack had an RDS instance and its deletion watch returned
\* True; when the stack was absent, the watch failed or no instance was
\* found, main holds None and no snapshot is listed or deleted.
C23_SnapshotCleanupCondition ==
    /\ TdIssued("describe_db_snapshots") # {}
          => ( td.db # "None" /\ td.iwatch = "True" )
    /\ ( CleanupEntered /\ td.db # "None" /\ td.iwatch = "True" )
          => TdIssued("describe_db_snapshots") # {}
    /\ ( td.int = "False" \/ td.iwatch = "False" \/ td.db = "None" )
          => /\ td.db_ret = "None"
             /\ TdIssued("describe_db_snapshots") = {}
             /\ TdIssued("delete_db_snapshot") = {}
    /\ TdIssued("delete_db_snapshot") # {} => TdIssued("describe_db_snapshots") # {}

C23_Witness ==
    /\ td.db # "None"
    /\ td.iwatch = "True"
    /\ td.db_ret = td.db
    /\ TdIssued("describe_db_snapshots") # {}
    /\ td.summary

\* C24: whenever create_stack or update_stack has been issued for the
\* integration stack, each of the four parameters handed to it is a value
\* read from the foundation stack's outputs, never the None of
\* get_stack_output.
C24_NoMissingOutput ==
    DpIssued(Operations("integration")) # {}
       => \A k \in { "VPCId", "PrivateSubnet1Id", "PrivateSubnet2Id", "KMSKeyId" } :
             dp.params[k] = "value"

====
